---- MODULE Spec2Model ----
(***************************************************************************)
(* Model of src/main.py: a three-stage file pipeline                       *)
(*   dispatcher -> s3_queue -> s3_uploader pool -> api_queue ->            *)
(*   api_uploader pool -> verify_queue -> verifier                         *)
(* with the module-level shutdown sequence that joins each stage and then  *)
(* puts DONE sentinels on the next queue.                                  *)
(*                                                                         *)
(* Tasks are the dict objects of FILES.  Python passes them by reference,  *)
(* so the model keeps one heap (the variable file, indexed by task id) and *)
(* the queues and the threads' local variables hold task ids.              *)
(***************************************************************************)
EXTENDS Integers, Sequences, FiniteSets, TLC

\* ------------------------------------------------------------------ bounds
MaxTasks == 3
MaxS3Workers == 2
MaxApiWorkers == 2
MaxFaults == 1
MaxReceived == 3

\* --------------------------------------------------------------- constants
\* DONE = None (main.py:10): the sentinel; task ids start at 1, so it is no task.
DONE == 0

QueueNames == {"s3", "api", "verify"}

VARIABLES
    files,          \* the list handed to dispatcher(files): task ids, in order
    s3_workers,     \* len(s3_workers): size of the transfer pool
    api_workers,    \* len(api_workers): size of the metadata pool
    fail_s3,        \* tasks for which the S3 copy call raises
    fail_api,       \* tasks for which the API upload call raises
    file,           \* the heap: task id -> its dict (status, dest_key, upload_id)
    s3_queue,       \* dispatcher -> s3 uploaders
    api_queue,      \* s3 uploaders -> api uploaders
    verify_queue,   \* api uploaders -> verifier
    d_i,            \* dispatcher: number of files already put
    pc_d,           \* dispatcher: "run" | "done"
    pc_s3,          \* s3 uploader w: "get" | "copy" | "put" | "done" | "dead"
    s3_file,        \* s3 uploader w: its local variable file (DONE when none)
    pc_api,         \* api uploader w: "get" | "status" | "upload" | "put" | "done" | "dead"
    api_file,       \* api uploader w: its local variable file (DONE when none)
    pc_v,           \* verifier: "get" | "report" | "done"
    processed,      \* verifier: its list processed
    report,         \* verifier: the printed report (a sequence of 0 or 1 record)
    cpc,            \* main thread: position in the shutdown sequence
    ci,             \* main thread: loop index
    enq,            \* history: enq[q][x] = how often x was put on queue q
    deq,            \* history: deq[q][x] = how often x was got from queue q
    calls           \* history: calls[c][t] = how often collaborator c was called for t

vars == <<files, s3_workers, api_workers, fail_s3, fail_api, file,
          s3_queue, api_queue, verify_queue, d_i, pc_d, pc_s3, s3_file,
          pc_api, api_file, pc_v, processed, report, cpc, ci, enq, deq, calls>>

\* ----------------------------------------------------------------- strings
\* A Python string is modelled by its list of "/"-separated segments
\* (s.split("/")), which determines the string: "" is <<"">>, "a/b" is <<"a","b">>.
EmptyStr == <<"">>

\* A Python value of the field upload_id: a str or a uuid.UUID object.
PyStr(s) == [type |-> "str", val |-> s]
PyUUID(h) == [type |-> "UUID", val |-> <<h>>]

\* str(x) for a str or a UUID: a UUID prints in its canonical lower-case form.
Str(x) == x.val

\* The spellings uuid.UUID(...) accepts, and the canonical form each denotes.
UuidCanon == ("u1" :> "u1") @@ ("U1" :> "u1") @@ ("u2" :> "u2") @@ ("U2" :> "u2")

\* The values str(uuid4()) may take: canonical spellings.
Uuid4Pool == {"u1", "u2"}

\* time.strftime("%Y/%m/%d/%H/%M/%S"): six segments (one clock reading).
Timestamp == <<"Y", "m", "d", "H", "M", "S">>

\* copy_file_s3_s3: dest_key = f"{timestamp}/{uuid4()}", u being str(uuid4()).
copy_file_s3_s3(u) == Timestamp \o <<u>>

\* s.rsplit("/", 1)[-1]: the text after the last "/".
RSplitLast(s) == <<s[Len(s)]>>

\* UUID(s) raises ValueError unless s spells a UUID.
UUIDRaises(s) == ~(Len(s) = 1 /\ s[1] \in DOMAIN UuidCanon)
UUID(s) == PyUUID(UuidCanon[s[1]])

\* Mutant of upload_file_to_api: the call returns an empty identifier.
upload_file_to_api_empty(f) == PyStr(EmptyStr)

\* upload_file_to_api(file): UUID(file['dest_key'].rsplit("/", 1)[-1])
upload_file_to_api_raises(f) == UUIDRaises(RSplitLast(f.dest_key))
upload_file_to_api(f) == UUID(RSplitLast(f.dest_key))

\* ------------------------------------------------------------------ helpers
Tasks == 1 .. Len(files)
S3W == 1 .. s3_workers
ApiW == 1 .. api_workers

\* One entry of FILES as the pipeline reads it.
NewFile == [status |-> "READY", dest_key |-> EmptyStr, upload_id |-> PyStr(EmptyStr)]

Bump(h, q, x) == [h EXCEPT ![q][x] = @ + 1]

\* Mutant of Finished: a join that only returns for a thread that returned normally.
FinishedOnlyOnReturn(p) == p = "done"

\* threading.Thread.join returns once the thread is no longer alive: it has
\* returned, or it has ended with an uncaught exception.
Finished(p) == p \in {"done", "dead"}

\* ---------------------------------------------------------------------- Init
InitWith(N, k1, k2, fs, fa) ==
    /\ files = [i \in 1 .. N |-> i]
    /\ s3_workers = k1
    /\ api_workers = k2
    /\ fail_s3 = fs
    /\ fail_api = fa
    /\ file = [t \in 1 .. N |-> NewFile]
    /\ s3_queue = <<>>
    /\ api_queue = <<>>
    /\ verify_queue = <<>>
    /\ d_i = 0
    /\ pc_d = "run"
    /\ pc_s3 = [w \in 1 .. k1 |-> "get"]
    /\ s3_file = [w \in 1 .. k1 |-> DONE]
    /\ pc_api = [w \in 1 .. k2 |-> "get"]
    /\ api_file = [w \in 1 .. k2 |-> DONE]
    /\ pc_v = "get"
    /\ processed = <<>>
    /\ report = <<>>
    /\ cpc = "join_dispatcher"
    /\ ci = 0
    /\ enq = [q \in QueueNames |-> [x \in 0 .. N |-> 0]]
    /\ deq = [q \in QueueNames |-> [x \in 0 .. N |-> 0]]
    /\ calls = [c \in {"copy", "upload"} |-> [t \in 1 .. N |-> 0]]

\* The repository as it is: the simulated collaborators never raise.
Init ==
    \E N \in 0 .. MaxTasks, k1 \in 1 .. MaxS3Workers, k2 \in 1 .. MaxApiWorkers :
        InitWith(N, k1, k2, {}, {})

\* The same pipeline with collaborators that may raise (the real S3 copy and
\* the real API upload the two helper functions stand for): for each task the
\* outcome of each call is fixed up front, for at most MaxFaults tasks in all.
\* A task whose copy raises never reaches the upload, so fail_api only lists
\* tasks outside fail_s3.
InitFail ==
    \E N \in 0 .. MaxTasks, k1 \in 1 .. MaxS3Workers, k2 \in 1 .. MaxApiWorkers :
        \E fs \in SUBSET (1 .. N) : \E fa \in SUBSET ((1 .. N) \ fs) :
            /\ Cardinality(fs) + Cardinality(fa) <= MaxFaults
            /\ InitWith(N, k1, k2, fs, fa)

\* Groups of variables, for UNCHANGED.
setup == <<files, s3_workers, api_workers, fail_s3, fail_api>>
dispVars == <<d_i, pc_d>>
s3Vars == <<pc_s3, s3_file>>
apiVars == <<pc_api, api_file>>
verVars == <<pc_v, processed, report>>
mainVars == <<cpc, ci>>

\* Mutant of DispatcherPut: each file is put twice.
DispatcherPutTwice ==
    /\ pc_d = "run"
    /\ d_i < Len(files)
    /\ s3_queue' = Append(Append(s3_queue, files[d_i + 1]), files[d_i + 1])
    /\ enq' = Bump(Bump(enq, "s3", files[d_i + 1]), "s3", files[d_i + 1])
    /\ d_i' = d_i + 1
    /\ UNCHANGED <<setup, file, api_queue, verify_queue, pc_d, s3Vars, apiVars,
                   verVars, mainVars, deq, calls>>

\* ---------------------------------------------------------------- dispatcher
\* for file in files: s3_queue.put(file)
DispatcherPut ==
    /\ pc_d = "run"
    /\ d_i < Len(files)
    /\ s3_queue' = Append(s3_queue, files[d_i + 1])
    /\ enq' = Bump(enq, "s3", files[d_i + 1])
    /\ d_i' = d_i + 1
    /\ UNCHANGED <<setup, file, api_queue, verify_queue, pc_d, s3Vars, apiVars,
                   verVars, mainVars, deq, calls>>

\* Mutant of DispatcherReturn: the dispatcher closes its queue itself, putting
\* one DONE before it returns.
DispatcherReturnPutsDone ==
    /\ pc_d = "run"
    /\ d_i = Len(files)
    /\ pc_d' = "done"
    /\ s3_queue' = Append(s3_queue, DONE)
    /\ enq' = Bump(enq, "s3", DONE)
    /\ UNCHANGED <<setup, file, api_queue, verify_queue, d_i, s3Vars,
                   apiVars, verVars, mainVars, deq, calls>>

\* the loop is exhausted: dispatcher returns and its thread ends
DispatcherReturn ==
    /\ pc_d = "run"
    /\ d_i = Len(files)
    /\ pc_d' = "done"
    /\ UNCHANGED <<setup, file, s3_queue, api_queue, verify_queue, d_i, s3Vars,
                   apiVars, verVars, mainVars, enq, deq, calls>>

\* --------------------------------------------------------------- s3_uploader
\* file = s3_queue.get(); if file is DONE: break
S3Get(w) ==
    /\ pc_s3[w] = "get"
    /\ s3_queue # <<>>
    /\ s3_queue' = Tail(s3_queue)
    /\ deq' = Bump(deq, "s3", Head(s3_queue))
    /\ IF Head(s3_queue) = DONE
         THEN /\ pc_s3' = [pc_s3 EXCEPT ![w] = "done"]
              /\ s3_file' = [s3_file EXCEPT ![w] = DONE]
         ELSE /\ pc_s3' = [pc_s3 EXCEPT ![w] = "copy"]
              /\ s3_file' = [s3_file EXCEPT ![w] = Head(s3_queue)]
    /\ UNCHANGED <<setup, file, api_queue, verify_queue, dispVars, apiVars,
                   verVars, mainVars, enq, calls>>

\* Mutant of S3Update: the status assignment is left out.
S3UpdateKeyOnly(f, key) == [f EXCEPT !.dest_key = key]

\* file['dest_key'] = upload_key; file['status'] = "S3_COPIED"
S3Update(f, key) == [f EXCEPT !.dest_key = key, !.status = "S3_COPIED"]

\* upload_key = copy_file_s3_s3(file), then the two updates of the dict.
\* The function has no except clause around it: if the call raises, the
\* exception leaves s3_uploader and the thread ends, its file with it.
S3Copy(w) ==
    /\ pc_s3[w] = "copy"
    /\ calls' = Bump(calls, "copy", s3_file[w])
    /\ IF s3_file[w] \in fail_s3
         THEN /\ pc_s3' = [pc_s3 EXCEPT ![w] = "dead"]
              /\ file' = file
         ELSE /\ pc_s3' = [pc_s3 EXCEPT ![w] = "put"]
              /\ \E u \in Uuid4Pool :
                    file' = [file EXCEPT ![s3_file[w]] = S3Update(@, copy_file_s3_s3(u))]
    /\ UNCHANGED <<setup, s3_queue, api_queue, verify_queue, dispVars, s3_file,
                   apiVars, verVars, mainVars, enq, deq>>

\* Mutant of S3Put: the file is also put back on s3_queue.
S3PutRequeue(w) ==
    /\ pc_s3[w] = "put"
    /\ api_queue' = Append(api_queue, s3_file[w])
    /\ s3_queue' = Append(s3_queue, s3_file[w])
    /\ enq' = Bump(Bump(enq, "api", s3_file[w]), "s3", s3_file[w])
    /\ pc_s3' = [pc_s3 EXCEPT ![w] = "get"]
    /\ s3_file' = [s3_file EXCEPT ![w] = DONE]
    /\ UNCHANGED <<setup, file, verify_queue, dispVars, apiVars,
                   verVars, mainVars, deq, calls>>

\* Mutant of S3Put: api_queue is bounded (one slot), so the put waits for room.
S3PutBounded(w) ==
    /\ pc_s3[w] = "put"
    /\ Len(api_queue) < 1
    /\ api_queue' = Append(api_queue, s3_file[w])
    /\ enq' = Bump(enq, "api", s3_file[w])
    /\ pc_s3' = [pc_s3 EXCEPT ![w] = "get"]
    /\ s3_file' = [s3_file EXCEPT ![w] = DONE]
    /\ UNCHANGED <<setup, file, s3_queue, verify_queue, dispVars, apiVars,
                   verVars, mainVars, deq, calls>>

\* Mutant of S3Put: the file is put at the head of api_queue.
S3PutFront(w) ==
    /\ pc_s3[w] = "put"
    /\ api_queue' = <<s3_file[w]>> \o api_queue
    /\ enq' = Bump(enq, "api", s3_file[w])
    /\ pc_s3' = [pc_s3 EXCEPT ![w] = "get"]
    /\ s3_file' = [s3_file EXCEPT ![w] = DONE]
    /\ UNCHANGED <<setup, file, s3_queue, verify_queue, dispVars, apiVars,
                   verVars, mainVars, deq, calls>>

\* api_queue.put(file), the print after it, and back to the top of the loop
S3Put(w) ==
    /\ pc_s3[w] = "put"
    /\ api_queue' = Append(api_queue, s3_file[w])
    /\ enq' = Bump(enq, "api", s3_file[w])
    /\ pc_s3' = [pc_s3 EXCEPT ![w] = "get"]
    /\ s3_file' = [s3_file EXCEPT ![w] = DONE]
    /\ UNCHANGED <<setup, file, s3_queue, verify_queue, dispVars, apiVars,
                   verVars, mainVars, deq, calls>>

\* -------------------------------------------------------------- api_uploader
\* file = api_queue.get(); if file is DONE: break
ApiGet(w) ==
    /\ pc_api[w] = "get"
    /\ api_queue # <<>>
    /\ api_queue' = Tail(api_queue)
    /\ deq' = Bump(deq, "api", Head(api_queue))
    /\ IF Head(api_queue) = DONE
         THEN /\ pc_api' = [pc_api EXCEPT ![w] = "done"]
              /\ api_file' = [api_file EXCEPT ![w] = DONE]
         ELSE /\ pc_api' = [pc_api EXCEPT ![w] = "status"]
              /\ api_file' = [api_file EXCEPT ![w] = Head(api_queue)]
    /\ UNCHANGED <<setup, file, s3_queue, verify_queue, dispVars, s3Vars,
                   verVars, mainVars, enq, calls>>

\* file['status'] = "API_UPLOADED" (before the upload call)
ApiSetStatus(w) ==
    /\ pc_api[w] = "status"
    /\ file' = [file EXCEPT ![api_file[w]].status = "API_UPLOADED"]
    /\ pc_api' = [pc_api EXCEPT ![w] = "upload"]
    /\ UNCHANGED <<setup, s3_queue, api_queue, verify_queue, dispVars, s3Vars,
                   api_file, verVars, mainVars, enq, deq, calls>>

\* file['upload_id'] = upload_file_to_api(file).  No except clause here
\* either: if the call raises, the thread ends and nothing is put.
ApiUpload(w) ==
    /\ pc_api[w] = "upload"
    /\ calls' = Bump(calls, "upload", api_file[w])
    /\ IF api_file[w] \in fail_api \/ upload_file_to_api_raises(file[api_file[w]])
         THEN /\ pc_api' = [pc_api EXCEPT ![w] = "dead"]
              /\ file' = file
         ELSE /\ pc_api' = [pc_api EXCEPT ![w] = "put"]
              /\ file' = [file EXCEPT ![api_file[w]].upload_id =
                                          upload_file_to_api(file[api_file[w]])]
    /\ UNCHANGED <<setup, s3_queue, api_queue, verify_queue, dispVars, s3Vars,
                   api_file, verVars, mainVars, enq, deq>>

\* verify_queue.put(file) and back to the top of the loop
ApiPut(w) ==
    /\ pc_api[w] = "put"
    /\ verify_queue' = Append(verify_queue, api_file[w])
    /\ enq' = Bump(enq, "verify", api_file[w])
    /\ pc_api' = [pc_api EXCEPT ![w] = "get"]
    /\ api_file' = [api_file EXCEPT ![w] = DONE]
    /\ UNCHANGED <<setup, file, s3_queue, api_queue, dispVars, s3Vars,
                   verVars, mainVars, deq, calls>>

\* ------------------------------------------------------------------ verifier
\* file = verify_queue.get(); if file is DONE: break; processed.append(file)
VerifierGet ==
    /\ pc_v = "get"
    /\ verify_queue # <<>>
    /\ verify_queue' = Tail(verify_queue)
    /\ deq' = Bump(deq, "verify", Head(verify_queue))
    /\ IF Head(verify_queue) = DONE
         THEN /\ pc_v' = "report"
              /\ processed' = processed
         ELSE /\ pc_v' = "get"
              /\ processed' = Append(processed, Head(verify_queue))
    /\ UNCHANGED <<setup, file, s3_queue, api_queue, dispVars, s3Vars, apiVars,
                   report, mainVars, enq, calls>>

\* Mutant of FailedList: only a status spelled "FAILED" counts as a failure.
FailedListOnlyFAILED(ps) == SelectSeq(ps, LAMBDA t : file[t].status = "FAILED")

\* success / failed: the list comprehensions over processed
SuccessList(ps) == SelectSeq(ps, LAMBDA t : file[t].status = "API_UPLOADED")
FailedList(ps) == SelectSeq(ps, LAMBDA t : file[t].status # "API_UPLOADED")

\* The report printed for expected_count = len(files); the MISSING FILES line
\* is printed only when len(processed) != expected_count.
MakeReport(expected, ps) ==
    [expected |-> expected,
     processed |-> Len(ps),
     success |-> Len(SuccessList(ps)),
     failed |-> Len(FailedList(ps)),
     missing_shown |-> Len(ps) # expected,
     missing |-> expected - Len(ps)]

VerifierReport ==
    /\ pc_v = "report"
    /\ report' = <<MakeReport(Len(files), processed)>>
    /\ pc_v' = "done"
    /\ UNCHANGED <<setup, file, s3_queue, api_queue, verify_queue, dispVars,
                   s3Vars, apiVars, processed, mainVars, enq, deq, calls>>

\* ------------------------------------------- main thread: shutdown sequence
\* Mutants of the shutdown sequence: a join that does not wait, a sentinel
\* loop that is one short, a sentinel loop that is one long.
DispatcherNotJoined == TRUE
S3NotJoined(w) == TRUE
S3SentinelOneShort == s3_workers - 1
S3SentinelOneMore == s3_workers + 1
ApiSentinelOneMore == api_workers + 1

\* dispatcher_thread.join()
DispatcherJoined == Finished(pc_d)

\* t.join() for t in s3_uploader_threads / api_uploader_threads
S3Joined(w) == Finished(pc_s3[w])
ApiJoined(w) == Finished(pc_api[w])

\* verifier_thread.join()
VerifierJoined == Finished(pc_v)

\* range(len(s3_workers)), range(len(api_workers)): sentinels per pool
S3SentinelCount == s3_workers
ApiSentinelCount == api_workers

MainJoinDispatcher ==
    /\ cpc = "join_dispatcher"
    /\ DispatcherJoined
    /\ cpc' = "put_s3"
    /\ ci' = 0
    /\ UNCHANGED <<setup, file, s3_queue, api_queue, verify_queue, dispVars,
                   s3Vars, apiVars, verVars, enq, deq, calls>>

\* for _ in range(len(s3_workers)): s3_queue.put(DONE)
MainPutS3Done ==
    /\ cpc = "put_s3"
    /\ ci < S3SentinelCount
    /\ s3_queue' = Append(s3_queue, DONE)
    /\ enq' = Bump(enq, "s3", DONE)
    /\ IF ci + 1 = S3SentinelCount
         THEN cpc' = "join_s3" /\ ci' = 1
         ELSE cpc' = cpc /\ ci' = ci + 1
    /\ UNCHANGED <<setup, file, api_queue, verify_queue, dispVars, s3Vars,
                   apiVars, verVars, deq, calls>>

\* for t in s3_uploader_threads: t.join()
MainJoinS3 ==
    /\ cpc = "join_s3"
    /\ S3Joined(ci)
    /\ IF ci = s3_workers
         THEN cpc' = "put_api" /\ ci' = 0
         ELSE cpc' = cpc /\ ci' = ci + 1
    /\ UNCHANGED <<setup, file, s3_queue, api_queue, verify_queue, dispVars,
                   s3Vars, apiVars, verVars, enq, deq, calls>>

\* for _ in range(len(api_workers)): api_queue.put(DONE)
MainPutApiDone ==
    /\ cpc = "put_api"
    /\ ci < ApiSentinelCount
    /\ api_queue' = Append(api_queue, DONE)
    /\ enq' = Bump(enq, "api", DONE)
    /\ IF ci + 1 = ApiSentinelCount
         THEN cpc' = "join_api" /\ ci' = 1
         ELSE cpc' = cpc /\ ci' = ci + 1
    /\ UNCHANGED <<setup, file, s3_queue, verify_queue, dispVars, s3Vars,
                   apiVars, verVars, deq, calls>>

\* for t in api_uploader_threads: t.join()
MainJoinApi ==
    /\ cpc = "join_api"
    /\ ApiJoined(ci)
    /\ IF ci = api_workers
         THEN cpc' = "put_verify" /\ ci' = 0
         ELSE cpc' = cpc /\ ci' = ci + 1
    /\ UNCHANGED <<setup, file, s3_queue, api_queue, verify_queue, dispVars,
                   s3Vars, apiVars, verVars, enq, deq, calls>>

\* verify_queue.put(DONE)
MainPutVerifyDone ==
    /\ cpc = "put_verify"
    /\ verify_queue' = Append(verify_queue, DONE)
    /\ enq' = Bump(enq, "verify", DONE)
    /\ cpc' = "join_verifier"
    /\ UNCHANGED <<setup, file, s3_queue, api_queue, dispVars, s3Vars, apiVars,
                   verVars, ci, deq, calls>>

\* verifier_thread.join(); print("=== Pipeline complete ===")
MainJoinVerifier ==
    /\ cpc = "join_verifier"
    /\ VerifierJoined
    /\ cpc' = "complete"
    /\ UNCHANGED <<setup, file, s3_queue, api_queue, verify_queue, dispVars,
                   s3Vars, apiVars, verVars, ci, enq, deq, calls>>

\* ----------------------------------------------------------- specifications
Dispatcher == DispatcherPut \/ DispatcherReturn
S3Uploader(w) == w \in S3W /\ (S3Get(w) \/ S3Copy(w) \/ S3Put(w))
ApiUploader(w) == w \in ApiW /\ (ApiGet(w) \/ ApiSetStatus(w) \/ ApiUpload(w) \/ ApiPut(w))
Verifier == VerifierGet \/ VerifierReport
Main == \/ MainJoinDispatcher \/ MainPutS3Done \/ MainJoinS3 \/ MainPutApiDone
        \/ MainJoinApi \/ MainPutVerifyDone \/ MainJoinVerifier

Next ==
    \/ DispatcherPut
    \/ DispatcherReturn
    \/ \E w \in S3W : S3Get(w)
    \/ \E w \in S3W : S3Copy(w)
    \/ \E w \in S3W : S3Put(w)
    \/ \E w \in ApiW : ApiGet(w)
    \/ \E w \in ApiW : ApiSetStatus(w)
    \/ \E w \in ApiW : ApiUpload(w)
    \/ \E w \in ApiW : ApiPut(w)
    \/ VerifierGet
    \/ VerifierReport
    \/ MainJoinDispatcher
    \/ MainPutS3Done
    \/ MainJoinS3
    \/ MainPutApiDone
    \/ MainJoinApi
    \/ MainPutVerifyDone
    \/ MainJoinVerifier

Spec == Init /\ [][Next]_vars

\* Every started thread keeps being scheduled (the OS scheduler and the GIL
\* hand-over starve no runnable thread).
Fairness ==
    /\ WF_vars(Dispatcher)
    /\ \A w \in 1 .. MaxS3Workers : WF_vars(S3Uploader(w))
    /\ \A w \in 1 .. MaxApiWorkers : WF_vars(ApiUploader(w))
    /\ WF_vars(Verifier)
    /\ WF_vars(Main)

FairSpec == Spec /\ Fairness

\* Only the dispatcher, the s3 uploaders and the main thread are sure to be
\* scheduled; the api uploaders and the verifier may never run.
UpstreamFairness ==
    /\ WF_vars(Dispatcher)
    /\ \A w \in 1 .. MaxS3Workers : WF_vars(S3Uploader(w))
    /\ WF_vars(Main)

UpstreamFairSpec == Spec /\ UpstreamFairness

FailSpec == InitFail /\ [][Next]_vars

FairFailSpec == FailSpec /\ Fairness

\* verifier(expected_count) on its own: verify_queue already holds what the
\* verifier is to receive, any list of up to MaxReceived of the N tasks
\* (repeats allowed) in any statuses, then DONE; every other thread has ended
\* and the main thread waits in verifier_thread.join().
Statuses == {"READY", "S3_COPIED", "API_UPLOADED", "FAILED"}
ReceivedLists(N) == UNION {[1 .. n -> 1 .. N] : n \in 0 .. MaxReceived}

InitVerifier ==
    \E N \in 0 .. MaxTasks :
        \E st \in [1 .. N -> Statuses], rs \in ReceivedLists(N) :
            /\ files = [i \in 1 .. N |-> i]
            /\ s3_workers = 1
            /\ api_workers = 1
            /\ fail_s3 = {}
            /\ fail_api = {}
            /\ file = [t \in 1 .. N |-> [NewFile EXCEPT !.status = st[t]]]
            /\ s3_queue = <<>>
            /\ api_queue = <<>>
            /\ verify_queue = rs \o <<DONE>>
            /\ d_i = N
            /\ pc_d = "done"
            /\ pc_s3 = [w \in 1 .. 1 |-> "done"]
            /\ s3_file = [w \in 1 .. 1 |-> DONE]
            /\ pc_api = [w \in 1 .. 1 |-> "done"]
            /\ api_file = [w \in 1 .. 1 |-> DONE]
            /\ pc_v = "get"
            /\ processed = <<>>
            /\ report = <<>>
            /\ cpc = "join_verifier"
            /\ ci = 0
            /\ enq = [q \in QueueNames |-> [x \in 0 .. N |->
                        IF q = "verify"
                          THEN Cardinality({i \in 1 .. Len(rs) + 1 : (rs \o <<DONE>>)[i] = x})
                          ELSE 0]]
            /\ deq = [q \in QueueNames |-> [x \in 0 .. N |-> 0]]
            /\ calls = [c \in {"copy", "upload"} |-> [t \in 1 .. N |-> 0]]

NextVerifier ==
    \/ VerifierGet
    \/ VerifierReport
    \/ MainJoinVerifier

VerifierSpec == InitVerifier /\ [][NextVerifier]_vars

\* ==================================================================== claims
Count(x, q) == Cardinality({i \in 1 .. Len(q) : q[i] = x})
TasksIn(q) == {q[i] : i \in 1 .. Len(q)} \ {DONE}

\* The verifier has dequeued its sentinel.
VerifierSawDone == pc_v \in {"report", "done"}

\* Every thread has exited and the main thread has printed "Pipeline complete".
AllExited ==
    /\ cpc = "complete"
    /\ Finished(pc_d)
    /\ \A w \in S3W : Finished(pc_s3[w])
    /\ \A w \in ApiW : Finished(pc_api[w])
    /\ Finished(pc_v)

\* C1: once the verifier has dequeued its sentinel, processed holds every
\* initial task exactly once, so len(processed) = N.
C1_ProcessedAllOnce ==
    VerifierSawDone =>
        /\ Len(processed) = Len(files)
        /\ \A t \in Tasks : Count(t, processed) = 1

\* C1 witness: the sentinel was dequeued in a run with several tasks and two
\* workers in each pool, the tasks having overtaken one another on the way.
C1_Witness ==
    /\ VerifierSawDone
    /\ Len(files) >= 2
    /\ s3_workers >= 2
    /\ api_workers >= 2
    /\ processed # files

\* C2: a sentinel has been put on a queue only if every producer of that
\* queue has terminated.
C2_SentinelAfterProducers ==
    /\ enq["s3"][DONE] > 0 => Finished(pc_d)
    /\ enq["api"][DONE] > 0 => \A w \in S3W : Finished(pc_s3[w])
    /\ enq["verify"][DONE] > 0 => \A w \in ApiW : Finished(pc_api[w])

\* C2 witness: all three queues have received their sentinels, the pools
\* having two workers each and tasks having been processed.
C2_Witness ==
    /\ enq["s3"][DONE] > 0
    /\ enq["api"][DONE] > 0
    /\ enq["verify"][DONE] > 0
    /\ s3_workers >= 2
    /\ api_workers >= 2
    /\ Len(files) >= 2

\* C3: under fair scheduling every thread eventually exits and the main thread
\* reaches "Pipeline complete"; until then some thread can always take a step.
C3_Terminates ==
    /\ <>AllExited
    /\ [](AllExited \/ ENABLED Next)

\* C3 witness: a completed run with more tasks than either pool has workers.
C3_Witness ==
    /\ AllExited
    /\ Len(files) > s3_workers
    /\ Len(files) > api_workers

\* Sentinels the main thread has put on queue q so far, read off its position.
MainPhase ==
    [join_dispatcher |-> 0, put_s3 |-> 1, join_s3 |-> 2, put_api |-> 3,
     join_api |-> 4, put_verify |-> 5, join_verifier |-> 6, complete |-> 7]
MainSent(putAt, k) ==
    IF MainPhase[cpc] < MainPhase[putAt] THEN 0
    ELSE IF cpc = putAt THEN ci ELSE k

\* C4: the sentinels on each queue are exactly those the main thread put (no
\* worker forwards one), at most k1 / k2 / 1 of them and exactly that many
\* once the run is complete; a thread that has seen a sentinel has exited,
\* each thread has seen exactly one by the end, and no sentinel is ever
\* handled as a task.
C4_SentinelCounts ==
    /\ enq["s3"][DONE] = MainSent("put_s3", s3_workers)
    /\ enq["api"][DONE] = MainSent("put_api", api_workers)
    /\ enq["verify"][DONE] = MainSent("put_verify", 1)
    /\ deq["s3"][DONE] = Cardinality({w \in S3W : pc_s3[w] = "done"})
    /\ deq["api"][DONE] = Cardinality({w \in ApiW : pc_api[w] = "done"})
    /\ deq["verify"][DONE] = IF VerifierSawDone THEN 1 ELSE 0
    /\ \A w \in S3W : pc_s3[w] \in {"copy", "put"} => s3_file[w] # DONE
    /\ \A w \in ApiW : pc_api[w] \in {"status", "upload", "put"} => api_file[w] # DONE
    /\ Count(DONE, processed) = 0
    /\ cpc = "complete" =>
          /\ enq["s3"][DONE] = s3_workers /\ deq["s3"][DONE] = s3_workers
          /\ enq["api"][DONE] = api_workers /\ deq["api"][DONE] = api_workers
          /\ enq["verify"][DONE] = 1 /\ deq["verify"][DONE] = 1

\* C4 witness: a completed run with two workers in each pool.
C4_Witness ==
    /\ cpc = "complete"
    /\ s3_workers >= 2
    /\ api_workers >= 2
    /\ Len(files) >= 1

\* The number of places task t is in: positions in the three queues, workers
\* holding it between their get and their put, positions in processed.
S3Holders(t) == {w \in S3W : pc_s3[w] \in {"copy", "put", "dead"} /\ s3_file[w] = t}
ApiHolders(t) ==
    {w \in ApiW : pc_api[w] \in {"status", "upload", "put", "dead"} /\ api_file[w] = t}
Places(t) ==
    Count(t, s3_queue) + Count(t, api_queue) + Count(t, verify_queue)
    + Cardinality(S3Holders(t)) + Cardinality(ApiHolders(t)) + Count(t, processed)

\* C5: every task the dispatcher has put is in exactly one place (one queue
\* position, one worker's hands, or processed), and a task not yet put is in none.
C5_ExactlyOnePlace ==
    \A t \in Tasks : Places(t) = IF enq["s3"][t] > 0 THEN 1 ELSE 0

\* C5 witness: tasks are spread over a queue, a transfer worker, a metadata
\* worker and the processed list at the same moment.
C5_Witness ==
    /\ \E t \in Tasks : Count(t, processed) = 1
    /\ \E t \in Tasks : Cardinality(ApiHolders(t)) = 1
    /\ \E t \in Tasks : Cardinality(S3Holders(t)) = 1

\* The tasks whose collaborator call has raised.
CopyFailed == {t \in Tasks : t \in fail_s3 /\ calls["copy"][t] > 0}
UploadFailed == {t \in Tasks : t \in fail_api /\ calls["upload"][t] > 0}

\* C6: a failing copy or upload call does not end the worker, and by the time
\* the verifier has exited the failed task is in processed with status FAILED.
C6_FailureForwarded ==
    /\ \A w \in S3W : pc_s3[w] # "dead"
    /\ \A w \in ApiW : pc_api[w] # "dead"
    /\ pc_v = "done" =>
          \A t \in CopyFailed \cup UploadFailed :
              Count(t, processed) = 1 /\ file[t].status = "FAILED"

\* C7: when the upload call fails for f tasks and the copy never fails, the
\* report is processed = N, success = N - f, failed = f, missing = 0.
C7_ReportCountsFailures ==
    (report # <<>> /\ fail_s3 = {}) =>
        /\ report[1].processed = Len(files)
        /\ report[1].success = Len(files) - Cardinality(UploadFailed)
        /\ report[1].failed = Cardinality(UploadFailed)
        /\ report[1].missing = 0

\* C8: in a run in which a collaborator call fails, under fair scheduling the
\* main thread still gets through every join, the verifier still dequeues its
\* sentinel and prints its report, and "Pipeline complete" is reached.
C8_FailureNotFatal ==
    (fail_s3 \cup fail_api # {}) => <>(AllExited /\ pc_v = "done" /\ report # <<>>)

\* C8 witness: a completed run in which a worker's call raised.
C8_Witness ==
    /\ AllExited
    /\ report # <<>>
    /\ CopyFailed \cup UploadFailed # {}

\* C9: a task with status API_UPLOADED has an upload_id that prints as the
\* last "/"-segment of its dest_key.
C9_UploadIdIsKeySegment ==
    \A t \in Tasks :
        file[t].status = "API_UPLOADED" =>
            Str(file[t].upload_id) = RSplitLast(file[t].dest_key)

Rank(st) == CASE st = "READY" -> 0 [] st = "S3_COPIED" -> 1 [] st = "API_UPLOADED" -> 2
                 [] OTHER -> 3

\* C10: a status only ever steps READY -> S3_COPIED -> API_UPLOADED, one step
\* at a time; every task in s3_queue is READY with an empty dest_key and every
\* task in api_queue is S3_COPIED with a non-empty dest_key.
C10_StageOrder ==
    /\ [](/\ \A t \in TasksIn(s3_queue) :
                file[t].status = "READY" /\ file[t].dest_key = EmptyStr
          /\ \A t \in TasksIn(api_queue) :
                file[t].status = "S3_COPIED" /\ file[t].dest_key # EmptyStr)
    /\ [][\A t \in Tasks :
             \/ file'[t].status = file[t].status
             \/ Rank(file'[t].status) = Rank(file[t].status) + 1 /\ Rank(file'[t].status) <= 2
         ]_vars

\* C10 witness: one task waits in s3_queue, another in api_queue, and a third
\* has reached API_UPLOADED.
C10_Witness ==
    /\ TasksIn(s3_queue) # {}
    /\ TasksIn(api_queue) # {}
    /\ \E t \in Tasks : file[t].status = "API_UPLOADED"

\* The report of a run in which all N tasks went through.
FullReport(N) ==
    [expected |-> N, processed |-> N, success |-> N, failed |-> 0,
     missing_shown |-> FALSE, missing |-> 0]

\* C11: when no collaborator call fails, every task the verifier has received
\* is API_UPLOADED with a non-empty dest_key and a non-empty upload_id, and
\* the report is processed = N, success = N, failed = 0, missing = 0.
C11_AllSucceed ==
    /\ \A i \in 1 .. Len(processed) :
          /\ file[processed[i]].status = "API_UPLOADED"
          /\ file[processed[i]].dest_key # EmptyStr
          /\ file[processed[i]].upload_id # PyStr(EmptyStr)
    /\ report # <<>> => report[1] = FullReport(Len(files))

\* C11 witness: the scenario of the integration test: 2 tasks, 1 worker in each
\* pool, report printed.
C11_Witness ==
    /\ report # <<>>
    /\ Len(files) = 2
    /\ s3_workers = 1
    /\ api_workers = 1
    /\ Len(processed) = 2

\* C12: the dispatcher has put exactly the first d_i tasks of files on
\* s3_queue, once each, and all of them when it has returned; while it runs
\* s3_queue has received no sentinel, and every sentinel s3_queue has received
\* was put by the main thread.
C12_DispatcherPutsEachOnce ==
    /\ \A t \in Tasks : enq["s3"][t] = IF t <= d_i THEN 1 ELSE 0
    /\ pc_d = "done" => d_i = Len(files)
    /\ pc_d = "run" => enq["s3"][DONE] = 0
    /\ enq["s3"][DONE] = MainSent("put_s3", s3_workers)

\* C12 witness: the dispatcher has returned after putting several tasks and
\* the main thread has put its sentinels on s3_queue.
C12_Witness ==
    /\ pc_d = "done"
    /\ Len(files) >= 2
    /\ enq["s3"][DONE] = s3_workers
    /\ s3_workers >= 2

\* How many tasks (not sentinels) have been got from queue q.
RECURSIVE TasksGot(_, _)
TasksGot(q, n) == IF n = 0 THEN 0 ELSE deq[q][n] + TasksGot(q, n - 1)

NumWhere(ps, P(_)) == Cardinality({i \in 1 .. Len(ps) : P(ps[i])})

\* C13: the verifier has printed no report before it has dequeued DONE; the
\* report has processed = number of tasks received, success = number of them
\* with status API_UPLOADED, failed = number with any other status,
\* success + failed = processed, and missing = expected - processed.
C13_ReportCounts ==
    /\ pc_v = "get" => report = <<>>
    /\ report # <<>> =>
          /\ deq["verify"][DONE] = 1
          /\ report[1].expected = Len(files)
          /\ report[1].processed = TasksGot("verify", Len(files))
          /\ report[1].success =
                NumWhere(processed, LAMBDA t : file[t].status = "API_UPLOADED")
          /\ report[1].failed =
                NumWhere(processed, LAMBDA t : file[t].status # "API_UPLOADED")
          /\ report[1].success + report[1].failed = report[1].processed
          /\ report[1].missing = report[1].expected - report[1].processed
          /\ report[1].missing_shown = (report[1].missing # 0)

\* C13 witness: a report over received tasks of which some succeeded and some
\* did not, with a task missing.
C13_Witness ==
    /\ report # <<>>
    /\ report[1].success >= 1
    /\ report[1].failed >= 1
    /\ report[1].missing >= 1

\* In queue q every sentinel lies behind every task.
SentinelsLast(q) ==
    \A i, j \in 1 .. Len(q) : (q[i] = DONE /\ q[j] # DONE) => j < i

\* No task is in a queue or in a worker's hands.
NoTaskInFlight ==
    /\ TasksIn(s3_queue) = {}
    /\ TasksIn(api_queue) = {}
    /\ TasksIn(verify_queue) = {}
    /\ \A t \in Tasks : S3Holders(t) = {} /\ ApiHolders(t) = {}

\* Once queue q has received a sentinel, this step puts no task on it.
NoTaskAfterSentinel(q) ==
    enq[q][DONE] > 0 => \A t \in Tasks : enq'[q][t] = enq[q][t]

\* C14: once a queue has received a sentinel no task is put on it any more; in
\* every queue all sentinels lie behind all tasks; and once the verifier has
\* dequeued its sentinel no task is left in a queue or in a worker's hands.
C14_SentinelClosesQueue ==
    /\ [][\A q \in QueueNames : NoTaskAfterSentinel(q)]_vars
    /\ [](/\ SentinelsLast(s3_queue)
          /\ SentinelsLast(api_queue)
          /\ SentinelsLast(verify_queue)
          /\ VerifierSawDone => NoTaskInFlight)

\* C14 witness: api_queue, which has several producers, holds tasks and,
\* behind them, sentinels.
C14_Witness ==
    /\ s3_workers >= 2
    /\ Cardinality(TasksIn(api_queue)) >= 2
    /\ Count(DONE, api_queue) >= 1

\* C15: a task carries status API_UPLOADED only once the upload call has
\* returned for it: never with an empty upload_id, and never when its upload
\* call raised.
C15_StatusAfterUpload ==
    \A t \in Tasks :
        file[t].status = "API_UPLOADED" =>
            /\ file[t].upload_id # PyStr(EmptyStr)
            /\ t \notin UploadFailed

\* C16: no task is put on any queue twice or got from any queue twice (so at
\* most one transfer worker and at most one metadata worker ever has it), and
\* each collaborator is called at most once per task.
C16_NoRequeue ==
    \A t \in Tasks :
        /\ \A q \in QueueNames : enq[q][t] <= 1 /\ deq[q][t] <= 1
        /\ calls["copy"][t] <= 1
        /\ calls["upload"][t] <= 1

\* C16 witness: a run is complete in which a call raised for one task, and
\* another task went through every queue and both collaborators once.
C16_Witness ==
    /\ cpc = "complete"
    /\ CopyFailed \cup UploadFailed # {}
    /\ \E t \in Tasks :
          /\ \A q \in QueueNames : enq[q][t] = 1 /\ deq[q][t] = 1
          /\ calls["copy"][t] = 1
          /\ calls["upload"][t] = 1

\* C17: with fairness for the dispatcher, the s3 uploaders and the main thread
\* only, the dispatcher and every s3 uploader still exit and every task is put
\* on api_queue, whatever the api uploaders and the verifier do or fail to do.
C17_UpstreamNeverBlocked ==
    <>(/\ pc_d = "done"
       /\ \A w \in S3W : pc_s3[w] = "done"
       /\ \A t \in Tasks : enq["api"][t] = 1)

\* C17 witness: no api uploader and not the verifier has taken a step, yet the
\* s3 uploaders have exited and api_queue holds every task.
C17_Witness ==
    /\ \A x \in 0 .. Len(files) : deq["api"][x] = 0
    /\ pc_v = "get" /\ processed = <<>>
    /\ \A w \in S3W : pc_s3[w] = "done"
    /\ pc_d = "done"
    /\ Len(files) >= 2
    /\ TasksIn(api_queue) = Tasks

\* C18: when a run of the repository's pipeline (no call raises) has reached
\* "Pipeline complete", s3_queue, api_queue and verify_queue are all empty: no
\* task and no sentinel is left for a later run on the same queues.
C18_QueuesEmptyAtEnd ==
    cpc = "complete" =>
        /\ s3_queue = <<>>
        /\ api_queue = <<>>
        /\ verify_queue = <<>>

\* C18 witness: the integration test's run (2 tasks, 1 worker per pool) is
\* complete, every task and every sentinel having been got.
C18_Witness ==
    /\ cpc = "complete"
    /\ Len(files) = 2
    /\ s3_workers = 1
    /\ api_workers = 1
    /\ \A q \in QueueNames : \A x \in 0 .. Len(files) : deq[q][x] = enq[q][x]

IsPrefix(p, q) == Len(p) <= Len(q) /\ \A i \in 1 .. Len(p) : p[i] = q[i]

\* C19: with one s3 uploader and one api uploader the verifier receives the
\* tasks in the order the dispatcher put them: processed is a prefix of files.
C19_SingleWorkerFifo ==
    (s3_workers = 1 /\ api_workers = 1) => IsPrefix(processed, files)

\* C19 witness: one worker per pool, several tasks, all received in order.
C19_Witness ==
    /\ s3_workers = 1
    /\ api_workers = 1
    /\ Len(files) >= 2
    /\ processed = files

\* C19, second half: with a second worker in either pool the verifier can
\* receive the tasks in another order.
C19_ReorderedByS3Pool ==
    s3_workers = 2 /\ api_workers = 1 /\ ~IsPrefix(processed, files)
C19_ReorderedByApiPool ==
    s3_workers = 1 /\ api_workers = 2 /\ ~IsPrefix(processed, files)

====
